---- MODULE Spec2Model ----
(***************************************************************************)
(* A model of the TwitterScraper content script (the incremental           *)
(* collection engine): the message listener, the seek loop                 *)
(* scrollToDateRange, the collection chain scrapeAndScroll / scrapeTweets, *)
(* thread reconstruction, de-duplication and the stop condition.           *)
(*                                                                         *)
(* The engine is single-threaded JavaScript.  Every action below is one    *)
(* macrotask: a message handler, or the resumption of an async function    *)
(* after a setTimeout, run up to its next real suspension.  An await that  *)
(* needs no timer (expandTruncatedTweets with no button to click) resumes  *)
(* in a microtask, before any other macrotask, and is part of the action.  *)
(***************************************************************************)
EXTENDS Integers, Sequences, FiniteSets, TLC

VARIABLES
    allTweets,       \* this.allTweets
    scrollInterval,  \* this.scrollInterval: NoHandle (null) or a timer handle
    isActive,        \* this.isActive
    config,          \* this.config
    feed,            \* the timeline of the page
    win,             \* the window of the timeline that is rendered
    tasks,           \* suspended async activations and pending timers
    started,         \* history: START_SCRAPING messages received
    seeks,           \* history: runs begun with a date range
    stops,           \* history: STOP_SCRAPING messages received
    runs,            \* history: runs begun (STARTs accepted)
    stopped,         \* history: runs that went from active to inactive
    completes,       \* history: SCRAPING_COMPLETE messages sent
    sameView,        \* history: cycles completed over dom since it last changed
    foreign,         \* history: a chain of an earlier run appended to allTweets
    fresh,           \* history: no chain of the current run has ended a cycle
    byStop,          \* history: a STOP message ended the run, no START since
    cycle,           \* history: the cycle the last step ended: "none", "view"
                     \* (over the nodes now rendered) or "old" (over others)
    entry,           \* history: how the last step entered scrapeTweets: "none",
                     \* "start", "timer", "seek" (a sample in the range) or
                     \* "ceiling" (maxAttempts reached)
    sampled,         \* history: the range of the seek loop whose body the
                     \* last step ran, NoRange when it ran none
    out,             \* history: the messages the last step sent, in order
    sent,            \* history: <<tweets>> of the last SCRAPING_COMPLETE sent
                     \* since the last accepted START, <<>> when none
    tick,            \* history: the parity of the number of cycles begun
    element,         \* a tweet element, as extractTweetData's strategies see it
    extracted,       \* what extractTweetData made of its text
    scrapedTweets,   \* the popup's scrapedTweets state
    csv              \* what convertToCSV made of it

vars == <<allTweets, scrollInterval, isActive, config, feed, win, tasks,
          started, seeks, stops, runs, stopped, completes, sameView, foreign,
          fresh, byStop, cycle, entry, sampled, out, sent, tick,
          element, extracted, scrapedTweets, csv>>

-----------------------------------------------------------------------------
(* Bounds of the model                                                     *)

MaxView == 3        \* at most this many tweet nodes are rendered at once
MaxMessages == 3    \* START_SCRAPING and STOP_SCRAPING messages in a behaviour
MaxSeeks == 1       \* runs with a date range in a behaviour
SlotsPerDay == 2    \* instants of a calendar day that the model tells apart
MaxLang == 2        \* [lang] elements in a tweet element
MaxDivs == 2        \* div[dir] elements in a tweet element
MaxRows == 2        \* tweets in the popup's scrapedTweets

-----------------------------------------------------------------------------
(* Values                                                                  *)

NoHandle == 0       \* scrollInterval = null
NoTimestamp == 0    \* timestamp '' (no time element, or no datetime)
BadTimestamp == -1  \* a datetime string that new Date() cannot parse
NaN == -2           \* the time value of an Invalid Date
NoLimit == 0        \* config.maxTweets undefined
NoPosition == 0     \* threadPosition undefined
NoRange == [start |-> 0, end |-> 0]   \* config.dateRange undefined
NoTweets == <<>>    \* threadTweets undefined

\* The instant (slot s of day d) a well-formed datetime denotes.
At(d, s) == d * SlotsPerDay + s

\* A text is its first 50 characters (head) and the rest (tail).
Txt(h, t) == [head |-> h, tail |-> t]

Node(au, tx, ts, ln, mo) ==
    [author |-> au, text |-> tx, timestamp |-> ts, line |-> ln, more |-> mo]

\* The timelines of the model, newest tweet first.
\*   line: the node holds the thread connector element
\*   more: the node holds a main-tweet "Show more" button
\* FeedThread: a thread of three: two tweets in the range, the last before
\* the start date.
FeedThread ==
    << Node("a", Txt("q", ""),  At(3, 0), TRUE,  TRUE),
       Node("a", Txt("r", ""),  At(2, 0), TRUE,  FALSE),
       Node("a", Txt("s", ""),  At(1, 1), FALSE, FALSE) >>

\* FeedOld: tweets of one author before the range, with no connector; the
\* second has the first 50 characters and the timestamp of the first, the
\* third has the text of the first.
FeedOld ==
    << Node("a", Txt("s", ""),  At(1, 1), FALSE, FALSE),
       Node("a", Txt("s", "x"), At(1, 1), FALSE, FALSE),
       Node("a", Txt("s", ""),  At(1, 0), FALSE, FALSE) >>

\* FeedOdd: a tweet late on the end date, a datetime that does not parse (in
\* a node with the thread connector), a tweet with no time element and no
\* author, and a node whose only text is a button label.
FeedOdd ==
    << Node("b", Txt("p", ""),    At(3, 1),     FALSE, FALSE),
       Node("c", Txt("u", ""),    BadTimestamp, TRUE,  FALSE),
       Node("",  Txt("t", ""),    NoTimestamp,  FALSE, FALSE),
       Node("c", Txt("Like", ""), NoTimestamp,  FALSE, FALSE) >>

Feeds == {FeedThread, FeedOld, FeedOdd}

Min(a, b) == IF a < b THEN a ELSE b

\* The rendered view is the window lo..hi of the timeline: at most MaxView
\* nodes, none when hi = lo - 1.
Windows(f) ==
    { w \in [lo : 1..Len(f), hi : 0..Len(f)] :
        w.hi >= w.lo - 1 /\ w.hi - w.lo < MaxView }

ConfigAll == [scrapeAll |-> TRUE, maxTweets |-> NoLimit, dateRange |-> NoRange]
ConfigCount(n) == [scrapeAll |-> FALSE, maxTweets |-> n, dateRange |-> NoRange]
ConfigDate(s, e) ==
    [scrapeAll |-> FALSE, maxTweets |-> NoLimit,
     dateRange |-> [start |-> s, end |-> e]]

\* The configurations the popup's three modes send.
Configs == {ConfigAll, ConfigCount(2), ConfigDate(2, 3)}

-----------------------------------------------------------------------------
(* Dates                                                                   *)

\* new Date(s) for a datetime attribute: its time value, NaN when invalid.
DateOfTimestamp(ts) == IF ts = BadTimestamp THEN NaN ELSE ts

\* new Date(d) for a calendar date yyyy-mm-dd: midnight UTC of that day.
DateOfDay(d) == At(d, 0)

\* a < b and a > b on Dates: false whenever either side is NaN.
DateLt(a, b) == a # NaN /\ b # NaN /\ a < b
DateGt(a, b) == a # NaN /\ b # NaN /\ a > b
DateLe(a, b) == a # NaN /\ b # NaN /\ a <= b
DateGe(a, b) == a # NaN /\ b # NaN /\ a >= b

-----------------------------------------------------------------------------
(* Field extraction                                                        *)

\* string.substring(0, 50)
Substring50(tx) == tx.head

\* The text test of extractTweetData: no text element or a text shorter
\* than 2 characters (head ""), or a text that is a UI token (here "Like").
IsRejectedText(tx) == tx.tail = "" /\ tx.head \in {"", "Like"}

\* extractTweetData: <<>> for null, else <<tweet>>.  The thread fields of a
\* fresh tweet are undefined.
ExtractTweetData(n) ==
    IF IsRejectedText(n.text) THEN <<>>
    ELSE << [text |-> n.text, timestamp |-> n.timestamp, author |-> n.author,
             isThread |-> FALSE, threadTweets |-> NoTweets,
             threadPosition |-> NoPosition] >>

-----------------------------------------------------------------------------
(* Field extraction: the strategies that find the text element            *)

\* A trimmed textContent is its length and its form:
\*   "plain"   none of the forms below
\*   "digits"  digits only
\*   "sep"     the separator '\u00b7' alone
\*   "hasSep"  a text that holds the separator
\*   "handle"  '@' and word characters
\*   "at"      a text that starts with '@' and is no handle
\*   "button"  one of Reply, Repost, Like alone
\*   "label"   a text that holds Reply, Repost or Like
\*   "word"    one of Show, Hide, More, Quote, Share alone
T(n, f) == [len |-> n, form |-> f]

LangMinLength == 10   \* text.length > 10 in the [lang] strategy
DivMinLength == 20    \* text.length > 20 in the div[dir] strategy
MinTextLength == 2    \* tweetText.length < 2 is rejected

\* text.includes('\u00b7')
HasSeparator(t) == t.form \in {"sep", "hasSep"}

\* text.startsWith('@')
StartsWithAt(t) == t.form \in {"handle", "at"}

\* text.includes('Repost'), text.includes('Like') or text.includes('Reply')
HasActionLabel(t) == t.form \in {"button", "label"}

\* text.match(/^\d+$/)
AllDigits(t) == t.form = "digits" /\ t.len >= 1

\* tweetText.match(/^(\d+|\u00b7|@\w+|Show|Hide|More|Reply|Repost|Quote|Like|Share)$/)
IsUiToken(t) == AllDigits(t) \/ t.form \in {"sep", "handle", "button", "word"}

\* A tweet element is what the three strategies query in it:
\*   tweetText  <<>>, or <<text>> of the [data-testid="tweetText"] element
\*   lang       the texts of its [lang] elements, in document order
\*   divs       its div[dir] elements, in document order: the text, and
\*              whether the parent holds a button
Element(tt, lang, divs) == [tweetText |-> tt, lang |-> lang, divs |-> divs]
Div(t, b) == [text |-> t, parentHasButton |-> b]

\* The loop over langElements from index i: <<>>, or <<text>> of the first
\* element that passes.
RECURSIVE LangElement(_, _)
LangElement(langElements, i) ==
    IF i > Len(langElements) THEN <<>>
    ELSE LET text == langElements[i] IN
         IF /\ text.len > 0
            /\ text.len > LangMinLength
            /\ ~HasSeparator(text)
            /\ ~StartsWithAt(text)
         THEN <<text>>
         ELSE LangElement(langElements, i + 1)

\* The loop over divElements from index i.
RECURSIVE DivElement(_, _)
DivElement(divElements, i) ==
    IF i > Len(divElements) THEN <<>>
    ELSE LET text == divElements[i].text IN
         IF /\ text.len > 0
            /\ text.len > DivMinLength
            /\ ~HasActionLabel(text)
            /\ ~divElements[i].parentHasButton
            /\ ~AllDigits(text)
         THEN <<text>>
         ELSE DivElement(divElements, i + 1)

\* Mutant: a tweetText element whose text is rejected gives way to the
\* fallbacks.
TweetTextElementUsable(el) ==
    IF /\ el.tweetText # <<>>
       /\ el.tweetText[1].len >= MinTextLength
       /\ ~IsUiToken(el.tweetText[1])
    THEN el.tweetText
    ELSE IF LangElement(el.lang, 1) # <<>> THEN LangElement(el.lang, 1)
    ELSE DivElement(el.divs, 1)

\* tweetTextElement after the three strategies: <<>> for null, else the
\* <<text>> of the element found.
TweetTextElement(el) ==
    IF el.tweetText # <<>> THEN el.tweetText
    ELSE IF LangElement(el.lang, 1) # <<>> THEN LangElement(el.lang, 1)
    ELSE DivElement(el.divs, 1)

\* The text part of extractTweetData: <<>> where it returns null, else
\* <<tweetText>>.  Node.text above is this text, with head "" where no
\* strategy finds an element.
ExtractText(el) ==
    LET tweetTextElement == TweetTextElement(el) IN
    IF tweetTextElement = <<>> THEN <<>>
    ELSE IF \/ tweetTextElement[1].len < MinTextLength
            \/ IsUiToken(tweetTextElement[1])
         THEN <<>>
         ELSE tweetTextElement

\* The tweet elements of the model.
TweetTexts ==
    {T(0, "plain"), T(1, "plain"), T(4, "button"), T(24, "plain")}
LangTexts ==
    {T(0, "plain"), T(5, "plain"), T(11, "digits"), T(12, "plain"),
     T(24, "at"), T(24, "hasSep")}
DivElements ==
    {Div(T(12, "plain"), FALSE), Div(T(21, "plain"), FALSE),
     Div(T(21, "plain"), TRUE), Div(T(21, "digits"), FALSE),
     Div(T(24, "label"), FALSE)}

SeqsUpTo(S, n) == UNION { [1..k -> S] : k \in 0..n }

Elements ==
    { Element(tt, lang, divs) :
        tt \in {<<>>} \cup { <<t>> : t \in TweetTexts },
        lang \in SeqsUpTo(LangTexts, MaxLang),
        divs \in SeqsUpTo(DivElements, MaxDivs) }

NoElement == Element(<<>>, <<>>, <<>>)
NotExtracted == [done |-> FALSE, tweet |-> <<>>]

-----------------------------------------------------------------------------
(* The popup's export: convertToCSV                                        *)

\* A string is a sequence of pieces: the quote character, the comma, the
\* newline, or a run of other characters.
Quote == "\""
Comma == ","
Newline == "\n"

\* s.replace(/"/g, '""')
RECURSIVE ReplaceQuotes(_)
ReplaceQuotes(str) ==
    IF str = <<>> THEN <<>>
    ELSE (IF Head(str) = Quote THEN <<Quote, Quote>> ELSE <<Head(str)>>)
         \o ReplaceQuotes(Tail(str))

\* array.join(sep)
RECURSIVE Join(_, _)
Join(strs, sep) ==
    IF strs = <<>> THEN <<>>
    ELSE IF Len(strs) = 1 THEN strs[1]
    ELSE strs[1] \o sep \o Join(Tail(strs), sep)

\* `"${value}"`
InQuotes(str) == <<Quote>> \o str \o <<Quote>>

\* A tweet as the popup holds it; '' and undefined are <<>>, a threadPosition
\* that is undefined is NoPosition.
PopupTweet(text, author, timestamp, isThread, threadPosition, threadTweets, quotedTweetUrl, mediaUrls) ==
    [text |-> text, author |-> author, timestamp |-> timestamp,
     isThread |-> isThread, threadPosition |-> threadPosition,
     threadTweets |-> threadTweets, quotedTweetUrl |-> quotedTweetUrl,
     mediaUrls |-> mediaUrls]

Headers ==
    << <<"Tweet Text">>, <<"Author">>, <<"Timestamp">>, <<"Is Thread">>,
       <<"Thread Position">>, <<"Full Thread">>, <<"Quoted Tweet URL">>,
       <<"Media URLs">> >>

\* The callback of tweets.map: the fields of one row.
CsvRow(tweet) ==
    << InQuotes(ReplaceQuotes(tweet.text)),
       InQuotes(IF tweet.author # <<>> THEN tweet.author ELSE <<"Unknown">>),
       InQuotes(IF tweet.timestamp # <<>> THEN tweet.timestamp ELSE <<"Unknown">>),
       InQuotes(IF tweet.isThread THEN <<"Yes">> ELSE <<"No">>),
       InQuotes(IF tweet.threadPosition # NoPosition
                THEN <<ToString(tweet.threadPosition)>> ELSE <<>>),
       InQuotes(IF tweet.isThread /\ tweet.threadTweets # NoTweets
                THEN Join([k \in 1..Len(tweet.threadTweets) |->
                              ReplaceQuotes(tweet.threadTweets[k])], <<" | ">>)
                ELSE <<>>),
       InQuotes(tweet.quotedTweetUrl),
       InQuotes(Join(tweet.mediaUrls, <<" | ">>)) >>

ConvertToCSV(tweets) ==
    Join(<<Join(Headers, <<Comma>>)>>
           \o [i \in 1..Len(tweets) |-> Join(CsvRow(tweets[i]), <<Comma>>)],
         <<Newline>>)

\* The tweets of the model: texts and author names with a quote, a comma or
\* a newline in them, single tweets and the first member of a thread.
ExportTexts ==
    { <<"a">>, <<"a", Quote, Comma>>, <<Quote, Newline, "a">> }
ExportAuthors ==
    { <<>>, <<"b">>, <<"b", Quote>>, <<Quote, Comma, "b">> }
ExportExtras ==
    { [timestamp |-> <<>>, quotedTweetUrl |-> <<>>, mediaUrls |-> <<>>],
      [timestamp |-> <<"t">>, quotedTweetUrl |-> <<"u">>,
       mediaUrls |-> << <<"m">>, <<"n">> >>] }
ExportTweets ==
    { PopupTweet(text, author, x.timestamp, isThread,
                 IF isThread THEN 1 ELSE NoPosition,
                 IF isThread THEN <<text, <<"c", Quote>>>> ELSE NoTweets,
                 x.quotedTweetUrl, x.mediaUrls) :
        text \in ExportTexts, author \in ExportAuthors,
        isThread \in BOOLEAN, x \in ExportExtras }

NotExported == [done |-> FALSE, text |-> <<>>]

-----------------------------------------------------------------------------
(* Thread reconstruction                                                   *)

\* isThreadContinuation for the node at index i of the queried nodes: the
\* connector is in the node, or in the cell before its cell.
\* Mutant: the connector alone makes a continuation, whatever the authors.
IsThreadContinuationAnyAuthor(nodes, i, lastAuthor, currentAuthor) ==
    nodes[i].line \/ (i > 1 /\ nodes[i - 1].line)

IsThreadContinuation(nodes, i, lastAuthor, currentAuthor) ==
    /\ nodes[i].line \/ (i > 1 /\ nodes[i - 1].line)
    /\ lastAuthor # ""
    /\ currentAuthor # ""
    /\ lastAuthor = currentAuthor

\* Mutant: the position is the index of forEach, not the index plus one.
FinalizeThreadFromZero(threadTweets) ==
    LET threadTexts == [i \in 1..Len(threadTweets) |-> threadTweets[i].text]
    IN  [i \in 1..Len(threadTweets) |->
            [threadTweets[i] EXCEPT !.isThread = TRUE,
                                    !.threadTweets = threadTexts,
                                    !.threadPosition = i - 1]]

FinalizeThread(threadTweets) ==
    LET threadTexts == [i \in 1..Len(threadTweets) |-> threadTweets[i].text]
    IN  [i \in 1..Len(threadTweets) |->
            [threadTweets[i] EXCEPT !.isThread = TRUE,
                                    !.threadTweets = threadTexts,
                                    !.threadPosition = i]]

\* Mutant: a group of one is finalized like a thread.
FlushThreadAlways(currentThread) == FinalizeThread(currentThread)

\* Mutant: a group of one is dropped.
FlushThreadThreadsOnly(currentThread) ==
    IF Len(currentThread) > 1 THEN FinalizeThread(currentThread)
    ELSE <<>>

\* What leaves the pending group when it is closed.
FlushThread(currentThread) ==
    IF Len(currentThread) > 1 THEN FinalizeThread(currentThread)
    ELSE currentThread

RECURSIVE ThreadScan(_, _, _, _, _)
ThreadScan(nodes, i, processedTweets, currentThread, lastAuthor) ==
    IF i > Len(nodes)
    THEN processedTweets \o FlushThread(currentThread)
    ELSE LET tweetData == ExtractTweetData(nodes[i]) IN
         IF tweetData = <<>>
         THEN ThreadScan(nodes, i + 1, processedTweets, currentThread, lastAuthor)
         ELSE IF /\ IsThreadContinuation(nodes, i, lastAuthor, tweetData[1].author)
                 /\ Len(currentThread) > 0
              THEN ThreadScan(nodes, i + 1, processedTweets,
                              Append(currentThread, tweetData[1]), lastAuthor)
              ELSE ThreadScan(nodes, i + 1,
                              processedTweets \o FlushThread(currentThread),
                              tweetData, tweetData[1].author)

ProcessTweetsForThreads(nodes) == ThreadScan(nodes, 1, <<>>, <<>>, "")

-----------------------------------------------------------------------------
(* The body of a collection cycle                                          *)

LimitReached(acc, cfg) == cfg.maxTweets # NoLimit /\ Len(acc) >= cfg.maxTweets

\* Mutant: the date test is left out.
OutsideDateRangeNever(tw, cfg) == FALSE

\* The date test of the forEach callback: true when the tweet is skipped.
OutsideDateRange(tw, cfg) ==
    /\ cfg.dateRange # NoRange
    /\ tw.timestamp # NoTimestamp
    /\ \/ DateLt(DateOfTimestamp(tw.timestamp), DateOfDay(cfg.dateRange.start))
       \/ DateGt(DateOfTimestamp(tw.timestamp), DateOfDay(cfg.dateRange.end))

\* `${text.substring(0, 50)}_${timestamp}`
UniqueId(tw) == <<Substring50(tw.text), tw.timestamp>>

\* Mutant: only the identifiers are compared, not the texts.
AlreadyExistsIdOnly(acc, tw) ==
    \E k \in 1..Len(acc) : UniqueId(acc[k]) = UniqueId(tw)

\* Mutant: nothing is taken for a duplicate.
AlreadyExistsNever(acc, tw) == FALSE

AlreadyExists(acc, tw) ==
    \E k \in 1..Len(acc) :
        UniqueId(acc[k]) = UniqueId(tw) \/ acc[k].text = tw.text

\* Mutant: the two tests of the limit are left out.
AddTweetNoLimit(acc, tw, cfg) ==
    IF OutsideDateRange(tw, cfg) THEN acc
    ELSE IF AlreadyExists(acc, tw) THEN acc
    ELSE Append(acc, tw)

\* Mutant: a new tweet is put at the front.
AddTweetFront(acc, tw, cfg) ==
    IF LimitReached(acc, cfg) THEN acc
    ELSE IF OutsideDateRange(tw, cfg) THEN acc
    ELSE IF AlreadyExists(acc, tw) THEN acc
    ELSE IF cfg.maxTweets = NoLimit \/ Len(acc) < cfg.maxTweets
         THEN <<tw>> \o acc
         ELSE acc

\* One call of the forEach callback.
AddTweet(acc, tw, cfg) ==
    IF LimitReached(acc, cfg) THEN acc
    ELSE IF OutsideDateRange(tw, cfg) THEN acc
    ELSE IF AlreadyExists(acc, tw) THEN acc
    ELSE IF cfg.maxTweets = NoLimit \/ Len(acc) < cfg.maxTweets
         THEN Append(acc, tw)
         ELSE acc

RECURSIVE AddTweets(_, _, _, _)
AddTweets(acc, processedTweets, i, cfg) ==
    IF i > Len(processedTweets) THEN acc
    ELSE AddTweets(AddTweet(acc, processedTweets[i], cfg), processedTweets, i + 1, cfg)

\* scrapeTweets after the await, over the nodes queried before it.
ScrapeTweets(acc, nodes, cfg) ==
    AddTweets(acc, ProcessTweetsForThreads(nodes), 1, cfg)

-----------------------------------------------------------------------------
(* Sampling the rendered view, and the stop condition                      *)

RECURSIVE DatesOf(_, _)
DatesOf(nodes, i) ==
    IF i > Len(nodes) THEN <<>>
    ELSE IF nodes[i].timestamp # NoTimestamp
         THEN <<DateOfTimestamp(nodes[i].timestamp)>> \o DatesOf(nodes, i + 1)
         ELSE DatesOf(nodes, i + 1)

GetCurrentTweetDates(view, count) ==
    DatesOf(SubSeq(view, 1, Min(count, Len(view))), 1)

StopSample == 5
StopMinDates == 3

\* Mutant: the date test does not ask for three sampled dates.
ShouldStopScrapingAnySample(acc, cfg, view) ==
    IF LimitReached(acc, cfg) THEN TRUE
    ELSE IF cfg.scrapeAll THEN FALSE
    ELSE IF cfg.dateRange # NoRange
         THEN LET currentPageTweets == GetCurrentTweetDates(view, StopSample) IN
              /\ Len(currentPageTweets) >= 1
              /\ \A k \in 1..Len(currentPageTweets) :
                    DateLt(currentPageTweets[k], DateOfDay(cfg.dateRange.start))
         ELSE FALSE

\* Mutant: the limit stops the run only once it is exceeded.
ShouldStopScrapingLate(acc, cfg, view) ==
    IF cfg.maxTweets # NoLimit /\ Len(acc) > cfg.maxTweets THEN TRUE
    ELSE IF cfg.scrapeAll THEN FALSE
    ELSE IF cfg.dateRange # NoRange
         THEN LET currentPageTweets == GetCurrentTweetDates(view, StopSample) IN
              /\ Len(currentPageTweets) >= StopMinDates
              /\ \A k \in 1..Len(currentPageTweets) :
                    DateLt(currentPageTweets[k], DateOfDay(cfg.dateRange.start))
         ELSE FALSE

ShouldStopScraping(acc, cfg, view) ==
    IF LimitReached(acc, cfg) THEN TRUE
    ELSE IF cfg.scrapeAll THEN FALSE
    ELSE IF cfg.dateRange # NoRange
         THEN LET currentPageTweets == GetCurrentTweetDates(view, StopSample) IN
              /\ Len(currentPageTweets) >= StopMinDates
              /\ \A k \in 1..Len(currentPageTweets) :
                    DateLt(currentPageTweets[k], DateOfDay(cfg.dateRange.start))
         ELSE FALSE

-----------------------------------------------------------------------------
\* The tweet nodes currently rendered, in document order:
\* document.querySelectorAll('[data-testid="tweet"]').
dom == SubSeq(feed, win.lo, win.hi)

-----------------------------------------------------------------------------
(* The engine.  A synchronous stretch of code is an operator from the      *)
(* engine's fields (a record st) to their values at its end.               *)

MaxAttempts == 50     \* maxAttempts of scrollToDateRange
GraceAttempts == 40   \* the "attempts > 40" of scrollToDateRange
SeekSample == 3       \* getCurrentTweetDates(3) in scrollToDateRange

\* Suspended activations.  run is history: the run whose START began the chain.
ExpandTask(nodes, r) ==   \* scrapeTweets, awaiting expandTruncatedTweets' 500 ms
    [pc |-> "expand", run |-> r, nodes |-> nodes, attempts |-> 0,
     h |-> NoHandle, range |-> NoRange]
TimerTask(h, r) ==        \* the 3000 ms setTimeout of scrapeAndScroll
    [pc |-> "timer", run |-> r, nodes |-> <<>>, attempts |-> 0,
     h |-> h, range |-> NoRange]
SeekTask(attempts, range, r) ==   \* scrollToDateRange, awaiting 2000 ms
    [pc |-> "seek", run |-> r, nodes |-> <<>>, attempts |-> attempts,
     h |-> NoHandle, range |-> range]

RemoveAt(seq, i) == SubSeq(seq, 1, i - 1) \o SubSeq(seq, i + 1, Len(seq))

\* clearInterval(h): the pending timer with that handle, if any, is dropped.
ClearTimer(ts, h) == SelectSeq(ts, LAMBDA t : ~(t.pc = "timer" /\ t.h = h))

\* The handle setTimeout returns: one no pending timer has.
NewHandle(ts) ==
    CHOOSE h \in 1..(Len(ts) + 1) :
        /\ \A k \in 1..Len(ts) : ts[k].h # h
        /\ \A g \in 1..(h - 1) : \E k \in 1..Len(ts) : ts[k].h = g

HasShowMore(view) == \E k \in 1..Len(view) : view[k].more

\* Mutant: the count sent is not read from allTweets.
SendStatusUpdateZero(st, message) ==
    [st EXCEPT !.out = Append(@, [action |-> "STATUS_UPDATE",
                                  message |-> message,
                                  tweets |-> <<>>,
                                  tweetCount |-> 0])]

SendStatusUpdate(st, message) ==
    [st EXCEPT !.out = Append(@, [action |-> "STATUS_UPDATE",
                                  message |-> message,
                                  tweets |-> <<>>,
                                  tweetCount |-> Len(st.allTweets)])]

SendScrapingComplete(st) ==
    [st EXCEPT !.out = Append(@, [action |-> "SCRAPING_COMPLETE",
                                  message |-> "",
                                  tweets |-> st.allTweets,
                                  tweetCount |-> Len(st.allTweets)]),
               !.completes = @ + 1,
               !.sent = <<st.allTweets>>]

StopScraping(st) ==
    LET s1 == [st EXCEPT
                 !.tasks = IF st.scrollInterval # NoHandle
                           THEN ClearTimer(@, st.scrollInterval) ELSE @,
                 !.scrollInterval = NoHandle,
                 !.isActive = FALSE,
                 !.stopped = IF st.isActive THEN @ + 1 ELSE @]
    IN  SendScrapingComplete(SendStatusUpdate(s1, "Scraping completed"))

\* Mutant: no next cycle is scheduled.
FinishCycleNoTimer(st, nodes, r) ==
    LET acc == ScrapeTweets(st.allTweets, nodes, st.config)
        s0 == [st EXCEPT
                 !.allTweets = acc,
                 !.cycle = IF nodes = dom THEN "view" ELSE "old",
                 !.fresh = @ /\ r # st.runs,
                 !.sameView = IF nodes = dom THEN Min(@ + 1, 2) ELSE @,
                 !.foreign = @ \/ (r # st.runs /\ acc # st.allTweets)]
        s1 == SendStatusUpdate(s0,
                 IF st.config.dateRange # NoRange
                 THEN "Found ${n} tweets in date range, scrolling..."
                 ELSE "Scraped ${n} tweets...")
    IN  IF ShouldStopScraping(acc, s1.config, dom)
        THEN StopScraping(s1)
        ELSE s1

\* scrapeAndScroll from the end of "await this.scrapeTweets()" on; nodes are
\* the elements scrapeTweets queried, r the chain.
FinishCycle(st, nodes, r) ==
    LET acc == ScrapeTweets(st.allTweets, nodes, st.config)
        s0 == [st EXCEPT
                 !.allTweets = acc,
                 !.cycle = IF nodes = dom THEN "view" ELSE "old",
                 !.fresh = @ /\ r # st.runs,
                 !.sameView = IF nodes = dom THEN Min(@ + 1, 2) ELSE @,
                 !.foreign = @ \/ (r # st.runs /\ acc # st.allTweets)]
        s1 == SendStatusUpdate(s0,
                 IF st.config.dateRange # NoRange
                 THEN "Found ${n} tweets in date range, scrolling..."
                 ELSE "Scraped ${n} tweets...")
    IN  IF ShouldStopScraping(acc, s1.config, dom)
        THEN StopScraping(s1)
        ELSE LET h == NewHandle(s1.tasks) IN
             [s1 EXCEPT !.tasks = Append(@, TimerTask(h, r)),
                        !.scrollInterval = h]

\* Mutant: the test of isActive is left out.
ScrapeAndScrollUnguarded(st, r, via) ==
    LET s1 == [st EXCEPT !.entry = via, !.tick = ~@] IN
    IF HasShowMore(dom)
    THEN [s1 EXCEPT !.tasks = Append(@, ExpandTask(dom, r))]
    ELSE FinishCycle(s1, dom, r)

\* scrapeAndScroll up to its first real suspension; via is history, the
\* caller.
ScrapeAndScroll(st, r, via) ==
    IF ~st.isActive THEN st
    ELSE LET s1 == [st EXCEPT !.entry = via, !.tick = ~@] IN
         IF HasShowMore(dom)
         THEN [s1 EXCEPT !.tasks = Append(@, ExpandTask(dom, r))]
         ELSE FinishCycle(s1, dom, r)

\* Mutant: at the ceiling of attempts the loop ends without scraping.
AfterSeekLoopGivesUp(st, attempts, r) ==
    IF attempts >= MaxAttempts
    THEN SendStatusUpdate(st, "Starting scraping from current position")
    ELSE st

\* scrollToDateRange after its while loop.
AfterSeekLoop(st, attempts, r) ==
    IF attempts >= MaxAttempts
    THEN ScrapeAndScroll(
             SendStatusUpdate(st, "Starting scraping from current position"),
             r, "ceiling")
    ELSE st

\* The branch an iteration of the while loop takes on the sampled dates.
SeekBranch(currentTweets, startDate, endDate) ==
    LET idx == 1..Len(currentTweets) IN
    IF Len(currentTweets) = 0 THEN "empty"
    ELSE IF \E k \in idx : /\ DateGe(currentTweets[k], startDate)
                            /\ DateLe(currentTweets[k], endDate)
         THEN "inRange"
    ELSE IF \A k \in idx : DateGt(currentTweets[k], endDate) THEN "after"
    ELSE IF \A k \in idx : DateLt(currentTweets[k], startDate) THEN "before"
    ELSE "neither"

\* The while loop of scrollToDateRange from its test on, and what follows
\* the loop, up to the first real suspension.  range holds the locals
\* startDate and endDate.  An iteration that finds the sampled dates neither
\* all after nor all before the range, and none in it, does not wait and
\* changes nothing but attempts, so the loop repeats it at once until
\* attempts = maxAttempts.
SeekLoop(st, attempts, range, r) ==
    IF ~(attempts < MaxAttempts /\ st.isActive)
    THEN AfterSeekLoop(st, attempts, r)
    ELSE LET currentTweets == GetCurrentTweetDates(dom, SeekSample)
             branch == SeekBranch(currentTweets, DateOfDay(range.start),
                                  DateOfDay(range.end))
             s1 == [st EXCEPT !.sampled = range]
             wait == [s1 EXCEPT !.tasks = Append(@, SeekTask(attempts, range, r))]
         IN  CASE branch = "empty" -> wait
               [] branch = "inRange" ->
                    ScrapeAndScroll(
                        SendStatusUpdate(s1, "Found tweets in range, scraping..."),
                        r, "seek")
               [] branch = "after" -> wait
               [] branch = "before" ->
                    IF attempts > GraceAttempts
                    THEN StopScraping(
                             SendStatusUpdate(s1, "No tweets found in date range"))
                    ELSE wait
               [] branch = "neither" -> AfterSeekLoop(s1, MaxAttempts, r)

\* Mutant: the test of isActive is left out.
StartScrapingUnguarded(st, cfg) ==
    LET s0 == [st EXCEPT !.config = cfg, !.isActive = TRUE,
                         !.allTweets = <<>>, !.runs = @ + 1,
                         !.sameView = 0, !.foreign = FALSE,
                         !.fresh = TRUE, !.byStop = FALSE, !.sent = <<>>]
        s1 == SendStatusUpdate(s0, "Starting scraping...")
    IN  IF cfg.dateRange # NoRange
        THEN SeekLoop(SendStatusUpdate(s1, "Finding tweets in date range..."),
                      0, cfg.dateRange, s1.runs)
        ELSE ScrapeAndScroll(s1, s1.runs, "start")

StartScraping(st, cfg) ==
    IF st.isActive THEN st
    ELSE LET s0 == [st EXCEPT !.config = cfg, !.isActive = TRUE,
                              !.allTweets = <<>>, !.runs = @ + 1,
                              !.sameView = 0, !.foreign = FALSE,
                              !.fresh = TRUE, !.byStop = FALSE, !.sent = <<>>]
             s1 == SendStatusUpdate(s0, "Starting scraping...")
         IN  IF cfg.dateRange # NoRange
             THEN SeekLoop(SendStatusUpdate(s1, "Finding tweets in date range..."),
                           0, cfg.dateRange, s1.runs)
             ELSE ScrapeAndScroll(s1, s1.runs, "start")

-----------------------------------------------------------------------------
(* State and steps                                                         *)

\* The engine's fields before a step.
Now ==
    [allTweets |-> allTweets, scrollInterval |-> scrollInterval,
     isActive |-> isActive, config |-> config, tasks |-> tasks,
     runs |-> runs, stopped |-> stopped, completes |-> completes,
     sameView |-> sameView, foreign |-> foreign, fresh |-> fresh,
     byStop |-> byStop, cycle |-> "none", entry |-> "none",
     sampled |-> NoRange, out |-> <<>>, sent |-> sent, tick |-> tick]

\* The step ends with the engine's fields as in st.
Becomes(st) ==
    /\ allTweets' = st.allTweets
    /\ scrollInterval' = st.scrollInterval
    /\ isActive' = st.isActive
    /\ config' = st.config
    /\ tasks' = st.tasks
    /\ runs' = st.runs
    /\ stopped' = st.stopped
    /\ completes' = st.completes
    /\ sameView' = st.sameView
    /\ foreign' = st.foreign
    /\ fresh' = st.fresh
    /\ byStop' = st.byStop
    /\ cycle' = st.cycle
    /\ entry' = st.entry
    /\ sampled' = st.sampled
    /\ out' = st.out
    /\ sent' = st.sent
    /\ tick' = st.tick
    /\ UNCHANGED <<element, extracted, scrapedTweets, csv>>

\* The engine after construction.
Idle ==
    /\ allTweets = <<>>
    /\ scrollInterval = NoHandle
    /\ isActive = FALSE
    /\ config = ConfigAll
    /\ tasks = <<>>
    /\ started = 0 /\ seeks = 0 /\ stops = 0 /\ runs = 0 /\ stopped = 0 /\ completes = 0
    /\ sameView = 0
    /\ foreign = FALSE
    /\ fresh = TRUE
    /\ byStop = FALSE
    /\ cycle = "none"
    /\ entry = "none"
    /\ sampled = NoRange
    /\ out = <<>>
    /\ sent = <<>>
    /\ tick = FALSE

Init ==
    /\ Idle
    /\ feed \in Feeds
    /\ win \in Windows(feed)
    /\ element = NoElement
    /\ extracted = NotExtracted
    /\ scrapedTweets = <<>>
    /\ csv = NotExported

\* The listener's START_SCRAPING case.
Start ==
    \E cfg \in Configs :
        /\ started + stops < MaxMessages
        /\ started' = started + 1
        /\ (cfg.dateRange # NoRange /\ ~isActive) => seeks < MaxSeeks
        /\ seeks' = IF cfg.dateRange # NoRange /\ ~isActive THEN seeks + 1 ELSE seeks
        /\ Becomes(StartScraping(Now, cfg))
        /\ UNCHANGED <<feed, win, stops>>

\* The listener's STOP_SCRAPING case.
Stop ==
    /\ started + stops < MaxMessages
    /\ stops' = stops + 1
    /\ Becomes(StopScraping([Now EXCEPT !.byStop = @ \/ isActive]))
    /\ UNCHANGED <<feed, win, started, seeks>>

\* The 3000 ms timer of scrapeAndScroll fires.
TimerFires ==
    \E i \in 1..Len(tasks) :
        /\ tasks[i].pc = "timer"
        /\ Becomes(ScrapeAndScroll([Now EXCEPT !.tasks = RemoveAt(@, i)],
                                   tasks[i].run, "timer"))
        /\ UNCHANGED <<feed, win, started, seeks, stops>>

\* The 500 ms wait of expandTruncatedTweets ends: scrapeTweets goes on.
ExpandDone ==
    \E i \in 1..Len(tasks) :
        /\ tasks[i].pc = "expand"
        /\ Becomes(FinishCycle([Now EXCEPT !.tasks = RemoveAt(@, i)],
                               tasks[i].nodes, tasks[i].run))
        /\ UNCHANGED <<feed, win, started, seeks, stops>>

\* A 2000 ms wait of scrollToDateRange ends: attempts++, and the loop again.
SeekWakes ==
    \E i \in 1..Len(tasks) :
        /\ tasks[i].pc = "seek"
        /\ Becomes(SeekLoop([Now EXCEPT !.tasks = RemoveAt(@, i)],
                            tasks[i].attempts + 1, tasks[i].range, tasks[i].run))
        /\ UNCHANGED <<feed, win, started, seeks, stops>>

\* The page renders other nodes: scrolled down, it loads older tweets below
\* and drops rendered ones above (virtualization).
Render ==
    \E w \in Windows(feed) :
        /\ w # win
        /\ w.lo >= win.lo /\ w.hi >= win.hi
        /\ win' = w
        /\ sameView' = 0
        /\ cycle' = "none"
        /\ entry' = "none"
        /\ sampled' = NoRange
        /\ out' = <<>>
        /\ UNCHANGED <<allTweets, scrollInterval, isActive, config, feed, tasks,
                       started, seeks, stops, runs, stopped, completes, foreign,
                       fresh, byStop, sent, tick, element, extracted,
                       scrapedTweets, csv>>

Next == Start \/ Stop \/ TimerFires \/ ExpandDone \/ SeekWakes \/ Render

Spec == Init /\ [][Next]_vars

\* The timers of setTimeout do fire: a wait of the seek loop, the wait of
\* expandTruncatedTweets and the timer of the next cycle each end.  This is
\* weak fairness of the three steps, WF_vars(SeekWakes), WF_vars(ExpandDone)
\* and WF_vars(TimerFires), written out: each step is enabled exactly while
\* a task at its place is pending, and it changes the state (it removes that
\* task, and a cycle it begins flips tick).
Pending(pcs) == \E k \in 1..Len(tasks) : tasks[k].pc \in pcs

FairSpec ==
    /\ Spec
    /\ []<>(~Pending({"seek"})) \/ []<><<SeekWakes>>_vars
    /\ []<>(~Pending({"expand"})) \/ []<><<ExpandDone>>_vars
    /\ []<>(~Pending({"timer"})) \/ []<><<TimerFires>>_vars

\* extractTweetData on its own: any tweet element of the model, and the one
\* step that resolves its text.
InitExtract ==
    /\ Idle
    /\ feed = FeedThread
    /\ win = [lo |-> 1, hi |-> 0]
    /\ element \in Elements
    /\ extracted = NotExtracted
    /\ scrapedTweets = <<>>
    /\ csv = NotExported

Extract ==
    /\ ~extracted.done
    /\ extracted' = [done |-> TRUE, tweet |-> ExtractText(element)]
    /\ UNCHANGED <<allTweets, scrollInterval, isActive, config, feed, win,
                   tasks, started, seeks, stops, runs, stopped, completes,
                   sameView, foreign, fresh, byStop, cycle, entry, sampled,
                   out, sent, tick, element, scrapedTweets, csv>>

SpecExtract == InitExtract /\ [][Extract]_vars

\* convertToCSV on its own: any list of tweets of the model in the popup, and
\* the one step that exports it.  The tweets are what SCRAPING_COMPLETE
\* carried, with the quoted-tweet and media fields extractTweetData also
\* fills.
InitExport ==
    /\ Idle
    /\ feed = FeedThread
    /\ win = [lo |-> 1, hi |-> 0]
    /\ element = NoElement
    /\ extracted = NotExtracted
    /\ scrapedTweets \in UNION { [1..k -> ExportTweets] : k \in 0..MaxRows }
    /\ csv = NotExported

\* downloadCSV: nothing is exported when there are no tweets.
Export ==
    /\ ~csv.done
    /\ Len(scrapedTweets) # 0
    /\ csv' = [done |-> TRUE, text |-> ConvertToCSV(scrapedTweets)]
    /\ UNCHANGED <<allTweets, scrollInterval, isActive, config, feed, win,
                   tasks, started, seeks, stops, runs, stopped, completes,
                   sameView, foreign, fresh, byStop, cycle, entry, sampled,
                   out, sent, tick, element, extracted, scrapedTweets>>

SpecExport == InitExport /\ [][Export]_vars

-----------------------------------------------------------------------------
(* Properties                                                              *)

Items == 1..Len(allTweets)

\* The fingerprint of a retained item: (first 50 characters of text, timestamp).
Fingerprint(it) == <<it.text.head, it.timestamp>>

\* A rendered node yields a candidate that is not in allTweets by the
\* fingerprint, nor by the text.
IsNewCandidate(n) ==
    /\ ExtractTweetData(n) # <<>>
    /\ \A i \in Items : /\ Fingerprint(allTweets[i]) # <<n.text.head, n.timestamp>>
                         /\ allTweets[i].text # n.text

\* The timestamp denotes an instant: it is present and it parses.
HasInstant(it) == it.timestamp # NoTimestamp /\ it.timestamp # BadTimestamp

\* The calendar day of an instant.
DayOf(ts) == ts \div SlotsPerDay

\* C1: in every reachable state no two items of allTweets have the same
\* fingerprint (first 50 characters of text, timestamp), and no two have the
\* same raw text.
C1_Uniqueness ==
    \A i, j \in Items :
        i < j => /\ Fingerprint(allTweets[i]) # Fingerprint(allTweets[j])
                 /\ allTweets[i].text # allTweets[j].text

\* A cycle has just ended over a view holding a node that repeats a retained
\* fingerprint under another text, and a node that repeats a retained text
\* under another timestamp.
C1_Witness ==
    /\ cycle = "view"
    /\ \E k \in 1..Len(dom) :
          /\ ExtractTweetData(dom[k]) # <<>>
          /\ \E i \in Items :
                Fingerprint(allTweets[i]) = <<dom[k].text.head, dom[k].timestamp>>
          /\ \A i \in Items : allTweets[i].text # dom[k].text
    /\ \E k \in 1..Len(dom) :
          /\ ExtractTweetData(dom[k]) # <<>>
          /\ \E i \in Items : allTweets[i].text = dom[k].text
          /\ \A i \in Items : allTweets[i].timestamp # dom[k].timestamp

\* C2: while config has a limit N (a run in Count mode, and the time after
\* it until the next START), allTweets never holds more than N items, and
\* once it holds N no step of the run (a cycle in flight at the limit or at a
\* STOP too) changes it.
C2_CountCap ==
    /\ [](config.maxTweets # NoLimit => Len(allTweets) <= config.maxTweets)
    /\ [][(/\ config.maxTweets # NoLimit
            /\ Len(allTweets) = config.maxTweets
            /\ runs' = runs) => allTweets' = allTweets]_vars

\* A further cycle has ended at the limit, over a view with a candidate that
\* is not retained.
C2_Witness ==
    /\ config.maxTweets # NoLimit
    /\ Len(allTweets) = config.maxTweets
    /\ cycle = "view"
    /\ sameView = 2
    /\ \E k \in 1..Len(dom) : IsNewCandidate(dom[k])

\* C3: while config has a date range, every item of allTweets whose
\* timestamp denotes an instant lies on a calendar day from start to end;
\* whatever the order of START, STOP and the cycles in flight.
C3_DateRange ==
    config.dateRange # NoRange =>
        \A i \in Items :
            HasInstant(allTweets[i]) =>
                /\ config.dateRange.start <= DayOf(allTweets[i].timestamp)
                /\ DayOf(allTweets[i].timestamp) <= config.dateRange.end

\* The second run has a date range; a cycle begun in the first run, under
\* another config, has ended in it, has retained a tweet in the range and
\* has dropped one outside it.
C3_Witness ==
    /\ config.dateRange # NoRange
    /\ runs = 2
    /\ foreign
    /\ cycle # "none"
    /\ \E i \in Items : HasInstant(allTweets[i])
    /\ \E k \in 1..Len(feed) :
          /\ ExtractTweetData(feed[k]) # <<>>
          /\ HasInstant(feed[k])
          /\ DayOf(feed[k].timestamp) < config.dateRange.start

\* C4: within a run, a cycle over the nodes that are rendered, when a cycle
\* over these nodes has already ended since the view last changed, leaves
\* allTweets as it was.
C4_Idempotent ==
    [][(cycle' = "view" /\ sameView >= 1 /\ runs' = runs)
          => allTweets' = allTweets]_vars

\* The second cycle over an unchanged view has ended, with two or more items
\* retained from it.
C4_Witness ==
    /\ cycle = "view"
    /\ sameView = 2
    /\ Len(allTweets) >= 2
    /\ \A i \in Items : \E k \in 1..Len(dom) : dom[k].text = allTweets[i].text

\* The retained items that an item's threadTweets names.
InThreadOf(i) ==
    { j \in Items :
        \E p \in 1..Len(allTweets[i].threadTweets) :
            allTweets[i].threadTweets[p] = allTweets[j].text }

\* The retained items with the threadTweets of item i.
GroupOf(i) ==
    { j \in Items : /\ allTweets[j].isThread
                    /\ allTweets[j].threadTweets = allTweets[i].threadTweets }

\* C5: every retained item with isThread has the threadTweets of every other
\* retained member of its thread, and the threadPosition values of the
\* retained members of a thread are 1..k, in the order of retention.
C5_ThreadConsistency ==
    \A i \in Items :
        allTweets[i].isThread =>
            /\ \A j \in InThreadOf(i) :
                  /\ allTweets[j].isThread
                  /\ allTweets[j].threadTweets = allTweets[i].threadTweets
            /\ { allTweets[j].threadPosition : j \in GroupOf(i) }
                  = 1..Cardinality(GroupOf(i))
            /\ \A j, k \in GroupOf(i) :
                  j < k => allTweets[j].threadPosition < allTweets[k].threadPosition

\* C6: for every item of allTweets, isThread holds exactly when threadTweets
\* has two or more texts and threadPosition is set, between 1 and their
\* number; without isThread both fields are undefined.
C6_ThreadFields ==
    \A i \in Items :
        LET it == allTweets[i] IN
        /\ it.isThread <=> /\ Len(it.threadTweets) >= 2
                           /\ it.threadPosition # NoPosition
                           /\ 1 <= it.threadPosition
                           /\ it.threadPosition <= Len(it.threadTweets)
        /\ ~it.isThread => /\ it.threadTweets = NoTweets
                           /\ it.threadPosition = NoPosition

\* allTweets holds the members of a finalized thread and a single tweet.
C6_Witness ==
    /\ \E i \in Items : allTweets[i].isThread /\ allTweets[i].threadPosition = 1
    /\ \E i \in Items : allTweets[i].isThread /\ allTweets[i].threadPosition = 2
    /\ \E i \in Items : ~allTweets[i].isThread

\* C7: SCRAPING_COMPLETE is sent once per run, when the run stops: the
\* messages sent are as many as the runs that have stopped (so a STOP with no
\* run active sends none).
C7_CompleteOncePerRun == completes = stopped

\* C8: a START received while a run is active changes nothing of the engine
\* and begins nothing, and config keeps its value while isActive stays true.
C8_StartWhileActive ==
    /\ [][(started' = started + 1 /\ isActive) =>
             UNCHANGED <<allTweets, scrollInterval, isActive, config, tasks,
                         runs, stopped, completes>>]_vars
    /\ [][(isActive /\ isActive') => config' = config]_vars

\* A START has been received during a run, which goes on with its items.
C8_Witness ==
    /\ isActive
    /\ started > runs
    /\ Len(allTweets) > 0
    /\ Len(tasks) = 1

\* C9: a START accepted while no run is active empties allTweets before any
\* step of the new run, so until a cycle of the new run has ended allTweets
\* holds nothing (no item a step of an earlier run collected).
C9_FreshRunIsEmpty == fresh => allTweets = <<>>

\* C10: a STOP received during a run sets isActive to false and cancels
\* every scheduled step: from it to the next START no cycle timer and no
\* seek wait is pending.
C10_StopCancelsAll ==
    byStop => /\ ~isActive
              /\ \A k \in 1..Len(tasks) : tasks[k].pc \notin {"timer", "seek"}

\* The suspended activations at a given place.
TasksAt(pcs) == { k \in 1..Len(tasks) : tasks[k].pc \in pcs }

\* C11: in every reachable state at most one cycle is in progress (suspended
\* inside scrapeTweets), at most one next cycle or seek wait is scheduled,
\* and none is scheduled while a cycle is in progress.
C11_OneCycleAtATime ==
    /\ Cardinality(TasksAt({"expand"})) <= 1
    /\ Cardinality(TasksAt({"timer", "seek"})) <= 1
    /\ Len(tasks) <= 1

\* C12: a step in which a cycle begins (scrapeTweets is entered from START,
\* from a timer, or from the seek loop at a sample in the range or at the
\* ceiling of attempts) starts with isActive true, or is the accepted START
\* that has set it.
C12_NoCycleWhileInactive ==
    [][entry' # "none" => (isActive \/ runs' = runs + 1)]_vars

\* A cycle has begun from the seek loop at the ceiling of attempts, in an
\* active run, and has retained an item.
C12_Witness ==
    /\ entry = "ceiling"
    /\ isActive
    /\ cycle = "view"
    /\ Len(allTweets) > 0

\* C13: from the SCRAPING_COMPLETE of a run to the next START nothing is
\* appended to allTweets: while no run is active, allTweets (what GET_TWEETS
\* answers) is the tweets of the last SCRAPING_COMPLETE sent.
C13_CompleteIsFinal ==
    (~isActive /\ sent # <<>>) => allTweets = sent[1]

\* The status messages scrapeTweets ends with.
CycleMessages ==
    {"Found ${n} tweets in date range, scrolling...", "Scraped ${n} tweets..."}

\* C14: a step that ends a cycle sends the STATUS_UPDATE of scrapeTweets, and
\* every message a step sends carries the length allTweets has when it is
\* sent: the length after the cycle's appends from that STATUS_UPDATE on, the
\* length before them (0 after an accepted START) for the ones sent earlier;
\* a SCRAPING_COMPLETE carries as many tweets as its count.
C14_StatusCounts ==
    [][LET base == IF runs' # runs THEN 0 ELSE Len(allTweets)
           cyc == { k \in 1..Len(out') : out'[k].message \in CycleMessages }
       IN  /\ cycle' # "none" => cyc # {}
           /\ \A k \in 1..Len(out') :
                 /\ out'[k].tweetCount =
                       IF \E c \in cyc : c <= k THEN Len(allTweets') ELSE base
                 /\ out'[k].action = "SCRAPING_COMPLETE" =>
                       Len(out'[k].tweets) = out'[k].tweetCount]_vars

\* An accepted START has run a cycle that retained two items and stopped:
\* the step has sent the status of the START with count 0, the status of the
\* cycle and SCRAPING_COMPLETE with count 2.
C14_Witness ==
    /\ cycle = "view"
    /\ Len(out) >= 4
    /\ out[1].message = "Starting scraping..." /\ out[1].tweetCount = 0
    /\ out[2].message \in CycleMessages /\ out[2].tweetCount = 2
    /\ out[Len(out)].action = "SCRAPING_COMPLETE"
    /\ out[Len(out)].tweetCount = 2

\* C15: a run whose config is scrapeAll stops only in the step of a
\* STOP_SCRAPING message: never by the stop condition at the end of a cycle,
\* nor in any other step.
C15_AllStopsOnlyByMessage ==
    [][(config'.scrapeAll /\ stopped' > stopped) => stops' = stops + 1]_vars

\* acc with every candidate from the i-th on that repeats neither the
\* fingerprint nor the text of an item before it: the new unique candidates,
\* in rendered order.
RECURSIVE WithNewUnique(_, _, _)
WithNewUnique(acc, cands, i) ==
    IF i > Len(cands) THEN acc
    ELSE IF \E k \in 1..Len(acc) : \/ Fingerprint(acc[k]) = Fingerprint(cands[i])
                                    \/ acc[k].text = cands[i].text
         THEN WithNewUnique(acc, cands, i + 1)
         ELSE WithNewUnique(Append(acc, cands[i]), cands, i + 1)

\* C16: with a limit N in config (Count mode), a step that ends a cycle over
\* the rendered nodes leaves in allTweets what it held followed by the new
\* unique candidates in rendered order, cut at N items; if it then holds N
\* the step ends with the run stopped and nothing scheduled (no timer set,
\* so no scroll); if it holds fewer the step does not stop the run.
C16_CountScenario ==
    [][(cycle' = "view" /\ config'.maxTweets # NoLimit) =>
         LET N == config'.maxTweets
             before == IF runs' # runs THEN <<>> ELSE allTweets
             all == WithNewUnique(before, ProcessTweetsForThreads(dom), 1)
         IN  /\ allTweets' = SubSeq(all, 1, Min(Len(all), N))
             /\ Len(allTweets') >= N =>
                   /\ ~isActive'
                   /\ scrollInterval' = NoHandle
                   /\ Len(tasks') <= Len(tasks)
                   /\ completes' = completes + 1
             /\ Len(allTweets') < N => completes' = completes]_vars

\* The first cycle of a Count run has ended over three new unique
\* candidates with a limit of two: the first two are retained and the run
\* has stopped.
C16_Witness ==
    /\ cycle = "view"
    /\ sameView = 1
    /\ config.maxTweets = 2
    /\ Len(WithNewUnique(<<>>, ProcessTweetsForThreads(dom), 1)) = 3
    /\ allTweets = SubSeq(WithNewUnique(<<>>, ProcessTweetsForThreads(dom), 1), 1, 2)
    /\ ~isActive
    /\ tasks = <<>>

\* The first nodes of the rendered view that the seek loop samples.
SeekNodes == SubSeq(dom, 1, Min(SeekSample, Len(dom)))

\* The calendar days of their timestamps.
SeekDays ==
    { DayOf(SeekNodes[k].timestamp) :
        k \in { j \in 1..Len(SeekNodes) : HasInstant(SeekNodes[j]) } }

\* C17: a step of the seek loop over sampled timestamps that all parse:
\* if all are on days after end, it enters no cycle, changes nothing of
\* allTweets and leaves the loop waiting to sample again; if one is on a
\* day from start to end, it enters a cycle at once, over the nodes that
\* are rendered.
C17_SeekScenario ==
    [][(/\ sampled' # NoRange
        /\ SeekDays # {}
        /\ \A k \in 1..Len(SeekNodes) : SeekNodes[k].timestamp # BadTimestamp) =>
          /\ (\A d \in SeekDays : d > sampled'.end) =>
                /\ entry' = "none" /\ cycle' = "none"
                /\ allTweets' = (IF runs' # runs THEN <<>> ELSE allTweets)
                /\ isActive'
                /\ \E k \in 1..Len(tasks') :
                      tasks'[k].pc = "seek" /\ tasks'[k].range = sampled'
          /\ (\E d \in SeekDays : sampled'.start <= d /\ d <= sampled'.end) =>
                /\ entry' = "seek"
                /\ \/ cycle' = "view"
                   \/ \E k \in 1..Len(tasks') :
                         tasks'[k].pc = "expand" /\ tasks'[k].nodes = dom]_vars

\* C18: the seek loop gives up (sends "No tweets found in date range") only
\* in a step that sampled timestamps all older than start, after more than
\* 40 attempts; the step stops the run and the SCRAPING_COMPLETE it sends
\* carries no tweets.
C18_SeekExhaustion ==
    [][\A k \in 1..Len(out') :
          out'[k].message = "No tweets found in date range" =>
            /\ sampled' # NoRange
            /\ SeekDays # {}
            /\ \A j \in 1..Len(SeekNodes) :
                  SeekNodes[j].timestamp # NoTimestamp =>
                      /\ HasInstant(SeekNodes[j])
                      /\ DayOf(SeekNodes[j].timestamp) < sampled'.start
            /\ \E t \in TasksAt({"seek"}) : tasks[t].attempts + 1 > GraceAttempts
            /\ ~isActive'
            /\ Len(out') = k + 2
            /\ out'[k + 2].action = "SCRAPING_COMPLETE"
            /\ out'[k + 2].tweets = <<>>
            /\ allTweets' = <<>>]_vars

\* The nodes of a view with every datetime that does not parse taken away.
Blank(view) ==
    [k \in 1..Len(view) |->
        IF view[k].timestamp = BadTimestamp
        THEN [view[k] EXCEPT !.timestamp = NoTimestamp]
        ELSE view[k]]

\* C19: a datetime that does not parse counts as no timestamp: with a date
\* range in config the filter of a cycle keeps a candidate that has one, the
\* stop condition is what it would be were these datetimes absent, and so
\* is the branch a waiting seek loop takes on the rendered nodes.
C19_MalformedAsAbsent ==
    /\ config.dateRange # NoRange =>
          /\ \A k \in 1..Len(dom) :
                \A j \in 1..Len(ExtractTweetData(dom[k])) :
                    dom[k].timestamp = BadTimestamp =>
                        ~OutsideDateRange(ExtractTweetData(dom[k])[j], config)
          /\ ShouldStopScraping(allTweets, config, dom)
                = ShouldStopScraping(allTweets, config, Blank(dom))
    /\ \A t \in TasksAt({"seek"}) :
          SeekBranch(GetCurrentTweetDates(dom, SeekSample),
                     DateOfDay(tasks[t].range.start), DateOfDay(tasks[t].range.end))
            = SeekBranch(GetCurrentTweetDates(Blank(dom), SeekSample),
                         DateOfDay(tasks[t].range.start),
                         DateOfDay(tasks[t].range.end))

\* The indices of the rendered nodes that yield a candidate, in order.
Candidates ==
    SelectSeq([k \in 1..Len(dom) |-> k],
              LAMBDA k : ExtractTweetData(dom[k]) # <<>>)

\* The node at index i holds the thread connector, or the node before it does.
HasConnector(i) == dom[i].line \/ (i > 1 /\ dom[i - 1].line)

\* C20: in the scan of the rendered nodes every candidate comes out once,
\* in order, and the j-th extends the pending group (comes out as a thread
\* member at a position above 1) exactly when its node has the connector (on
\* itself or on the node before) and its author is the author of the
\* candidate before it and is not empty; so with all authors distinct, or
\* with no connector, nothing comes out as a thread, and the members of a
\* thread have one author, not empty.
C20_ThreadScan ==
    LET P == ProcessTweetsForThreads(dom)
        Extends(j) == P[j].isThread /\ P[j].threadPosition > 1
    IN  /\ Len(P) = Len(Candidates)
        /\ \A j \in 1..Len(P) :
              /\ P[j].text = dom[Candidates[j]].text
              /\ Extends(j) <=> /\ j > 1
                                /\ HasConnector(Candidates[j])
                                /\ P[j].author = P[j - 1].author
                                /\ P[j].author # ""
              /\ P[j].isThread =>
                    \/ Extends(j)
                    \/ j < Len(P) /\ Extends(j + 1) /\ P[j].threadPosition = 1
        /\ (\/ \A i, j \in 1..Len(P) : i # j => P[i].author # P[j].author
            \/ \A i \in 1..Len(dom) : ~dom[i].line)
              => \A j \in 1..Len(P) : ~P[j].isThread
        /\ \A i, j \in 1..Len(P) :
              (P[i].isThread /\ P[j].isThread
                 /\ P[i].threadTweets = P[j].threadTweets)
                => P[i].author = P[j].author /\ P[i].author # ""
        /\ \A i \in Items : allTweets[i].isThread => allTweets[i].author # ""

\* A cycle has ended over three rendered nodes of one author joined by the
\* connector, and has retained the third member of their thread.
C20_Witness ==
    /\ cycle = "view"
    /\ Len(Candidates) = 3
    /\ \A j \in 2..3 : HasConnector(Candidates[j])
    /\ \E i \in Items :
          /\ allTweets[i].threadPosition = 3
          /\ allTweets[i].text = dom[Candidates[3]].text

\* The j-th candidate of the rendered nodes continues the group of the one
\* before it: connector, same author, not empty.
Continues(j) ==
    /\ j > 1
    /\ HasConnector(Candidates[j])
    /\ dom[Candidates[j]].author = dom[Candidates[j - 1]].author
    /\ dom[Candidates[j]].author # ""

\* The first and the last candidate of the group of the j-th.
GroupFirst(j) ==
    CHOOSE f \in 1..j :
        /\ ~Continues(f)
        /\ \A m \in (f + 1)..j : Continues(m)
GroupLast(j) ==
    CHOOSE l \in j..Len(Candidates) :
        /\ l = Len(Candidates) \/ ~Continues(l + 1)
        /\ \A m \in (j + 1)..l : Continues(m)

\* C21: in the output of one scan of the rendered nodes, every member of a
\* group of k >= 2 has isThread, the k texts of the group in rendered order
\* as threadTweets and its rank in the group as threadPosition (so that
\* threadTweets[threadPosition] is its own text); every group of one, the
\* last one of the scan too, comes out with no thread field.
C21_GroupsFinalized ==
    LET P == ProcessTweetsForThreads(dom) IN
    /\ Len(P) = Len(Candidates)
    /\ \A j \in 1..Len(P) :
          LET f == GroupFirst(j)
              l == GroupLast(j)
          IN  IF l > f
              THEN /\ P[j].isThread
                   /\ P[j].threadTweets =
                         [m \in 1..(l - f + 1) |-> dom[Candidates[f + m - 1]].text]
                   /\ P[j].threadPosition = j - f + 1
                   /\ P[j].threadTweets[P[j].threadPosition] = P[j].text
              ELSE /\ ~P[j].isThread
                   /\ P[j].threadTweets = NoTweets
                   /\ P[j].threadPosition = NoPosition

\* A cycle has ended over three rendered nodes of one author, the second
\* and third with the connector, and has retained them as one thread at
\* positions 1, 2, 3.
C21_Witness ==
    /\ cycle = "view"
    /\ Len(Candidates) = 3
    /\ GroupFirst(3) = 1
    /\ Len(allTweets) = 3
    /\ \A j \in 1..3 : /\ allTweets[j].threadPosition = j
                        /\ Len(allTweets[j].threadTweets) = 3

\* C22: the scan neither drops, repeats nor reorders candidates: its output
\* is, in order, the records extracted from the rendered nodes that yield
\* one, each once, with the text, timestamp and author extracted.
C22_ScanKeepsCandidates ==
    LET P == ProcessTweetsForThreads(dom) IN
    /\ [j \in 1..Len(P) |-> P[j].text]
          = [j \in 1..Len(Candidates) |-> dom[Candidates[j]].text]
    /\ [j \in 1..Len(P) |-> <<P[j].timestamp, P[j].author>>]
          = [j \in 1..Len(Candidates) |->
                <<dom[Candidates[j]].timestamp, dom[Candidates[j]].author>>]

\* A cycle has ended over rendered nodes of which one yields no record and
\* two or more yield one, and has retained these, in order.
C22_Witness ==
    /\ cycle = "view"
    /\ Len(Candidates) >= 2
    /\ Len(dom) > Len(Candidates)
    /\ [i \in Items |-> allTweets[i].text]
          = [j \in 1..Len(Candidates) |-> dom[Candidates[j]].text]

\* The rendered nodes, among the leading ones the stop condition samples,
\* that have a datetime.
StopNodes ==
    { k \in 1..Min(StopSample, Len(dom)) : dom[k].timestamp # NoTimestamp }

\* Three or more sampled nodes have a datetime, and every sampled datetime
\* is an instant of a day before start.
PastTheRange(range) ==
    /\ Cardinality(StopNodes) >= 3
    /\ \A k \in StopNodes :
          HasInstant(dom[k]) /\ DayOf(dom[k].timestamp) < range.start

\* C23: with a date range in config, a step that ends a cycle stops the run
\* exactly when three or more of the sampled leading nodes have a timestamp
\* and all sampled timestamps are older than start; otherwise it sets the
\* timer of the next cycle and stops nothing.
C23_DateStop ==
    [][(cycle' # "none" /\ config'.dateRange # NoRange) =>
         /\ completes' = completes + 1 <=> PastTheRange(config'.dateRange)
         /\ ~PastTheRange(config'.dateRange) =>
               /\ completes' = completes
               /\ scrollInterval' # NoHandle
               /\ \E k \in 1..Len(tasks') :
                     tasks'[k].pc = "timer" /\ tasks'[k].h = scrollInterval']_vars

\* A cycle of a run with a date range has ended over three rendered tweets
\* older than start, and the run has stopped with nothing retained.
C23_Witness ==
    /\ cycle = "view"
    /\ config.dateRange # NoRange
    /\ PastTheRange(config.dateRange)
    /\ ~isActive
    /\ stops = 0
    /\ allTweets = <<>>
    /\ Len(out) >= 3
    /\ out[Len(out)].action = "SCRAPING_COMPLETE"

\* C24: a seek loop never waits with 50 attempts made; a step in which it
\* reaches the ceiling while a run is active enters a cycle over the nodes
\* that are rendered; and, its waits ending, every seek loop leaves the
\* loop, whatever it samples.
C24_SeekTerminates ==
    /\ [](\A k \in TasksAt({"seek"}) : tasks[k].attempts < MaxAttempts)
    /\ [][(/\ \E k \in 1..Len(out') :
                 out'[k].message = "Starting scraping from current position"
            /\ (isActive \/ runs' # runs)) =>
              /\ entry' = "ceiling"
              /\ \/ cycle' = "view"
                 \/ \E k \in 1..Len(tasks') :
                       tasks'[k].pc = "expand" /\ tasks'[k].nodes = dom]_vars
    /\ (TasksAt({"seek"}) # {}) ~> (TasksAt({"seek"}) = {})

\* A seek loop waits with 49 attempts made: the next is its last.
C24_Witness ==
    \E k \in TasksAt({"seek"}) :
        /\ tasks[k].attempts = MaxAttempts - 1
        /\ isActive

\* C25: a step runs the seek loop only in a run whose config has the date
\* range of the loop, and only before any cycle of that run; an accepted
\* START with a date range begins with the seek loop and one without begins
\* a cycle at once; and isActive becomes true only by an accepted START.
C25_PhaseOrder ==
    [][/\ sampled' # NoRange =>
             /\ config'.dateRange = sampled'
             /\ fresh \/ runs' # runs
             /\ \A k \in TasksAt({"expand", "timer"}) : tasks[k].run # runs'
       /\ (runs' # runs /\ config'.dateRange # NoRange) =>
             sampled' = config'.dateRange
       /\ (runs' # runs /\ config'.dateRange = NoRange) =>
             sampled' = NoRange /\ entry' = "start"
       /\ (~isActive /\ isActive') => runs' = runs + 1]_vars

\* C26: a cycle extracts from the nodes that are rendered when the wait of
\* expandTruncatedTweets has ended: the step that ends a cycle leaves in
\* allTweets what scrapeTweets makes of the nodes rendered then.
C26_QueryAfterExpand ==
    [][cycle' # "none" =>
         allTweets' = ScrapeTweets(IF runs' # runs THEN <<>> ELSE allTweets,
                                   dom, config')]_vars

\* The handles of the pending timers of scrapeAndScroll.
TimerHandles(ts) == { ts[k].h : k \in { j \in 1..Len(ts) : ts[j].pc = "timer" } }

\* The number of pending timers of scrapeAndScroll.
TimerCount(ts) == Cardinality({ k \in 1..Len(ts) : ts[k].pc = "timer" })

\* C27: a step that ends a cycle whose stop condition is false (no
\* SCRAPING_COMPLETE is sent) schedules exactly one next cycle: one timer more
\* is pending than before the step, not counting the timer that fired, and
\* scrollInterval holds its handle.  An active run is never left with nothing
\* pending, and, the timers firing, whenever a next cycle is scheduled in an
\* active run another cycle eventually begins unless the run is stopped.
C27_NextCycleScheduled ==
    /\ [][(cycle' # "none" /\ completes' = completes) =>
            /\ TimerCount(tasks') =
                   TimerCount(tasks) + (IF entry' = "timer" THEN 0 ELSE 1)
            /\ scrollInterval' \in TimerHandles(tasks')]_vars
    /\ [](isActive => tasks # <<>>)
    /\ \A b \in BOOLEAN :
          (isActive /\ Pending({"timer"}) /\ tick = b) ~> (tick # b \/ ~isActive)

\* A cycle of an active run has just ended over the viewport for the second
\* time running, begun by the timer of the cycle before, and its only pending
\* activation is the timer of the next cycle.
C27_Witness ==
    /\ isActive
    /\ cycle = "view"
    /\ entry = "timer"
    /\ sameView = 2
    /\ Len(tasks) = 1
    /\ tasks[1].pc = "timer"
    /\ tasks[1].h = scrollInterval

\* The record's timestamp is an instant of a calendar day outside start..end.
OffTheDates(tw, range) ==
    HasInstant(tw) /\ DayOf(tw.timestamp) \notin range.start..range.end

\* C28: with a date range in config, a step that ends a cycle over the
\* rendered nodes drops a record only when its timestamp is an instant of a
\* calendar day outside start..end: every record whose timestamp is absent,
\* does not parse, or is of a day from start to end (at any time of the end
\* day) is in allTweets after the step, by its text or its fingerprint, and
\* no record the step appends is of a day outside start..end.
C28_DateFilter ==
    [][(cycle' = "view" /\ config'.dateRange # NoRange) =>
         LET recs == ProcessTweetsForThreads(dom)
             before == IF runs' # runs THEN 0 ELSE Len(allTweets)
         IN  /\ \A k \in 1..Len(recs) :
                   ~OffTheDates(recs[k], config'.dateRange) =>
                       \E i \in 1..Len(allTweets') :
                           \/ allTweets'[i].text = recs[k].text
                           \/ Fingerprint(allTweets'[i]) = Fingerprint(recs[k])
             /\ \A i \in (before + 1)..Len(allTweets') :
                   ~OffTheDates(allTweets'[i], config'.dateRange)]_vars

\* The text passes the last test of extractTweetData.
Usable(t) == t.len >= MinTextLength /\ ~IsUiToken(t)

\* The [lang] elements the second strategy accepts, and the div[dir]
\* elements the third accepts.
LangPasses ==
    { i \in 1..Len(element.lang) :
        /\ element.lang[i].len > LangMinLength
        /\ element.lang[i].form \notin {"sep", "hasSep", "handle", "at"} }
DivPasses ==
    { i \in 1..Len(element.divs) :
        /\ element.divs[i].text.len > DivMinLength
        /\ element.divs[i].text.form \notin {"button", "label", "digits"}
        /\ ~element.divs[i].parentHasButton }

First(S) == CHOOSE i \in S : \A j \in S : i <= j

\* What each strategy finds on its own: <<>>, or <<text>>.
TierPick(k) ==
    CASE k = 1 -> element.tweetText
      [] k = 2 -> IF LangPasses = {} THEN <<>>
                  ELSE <<element.lang[First(LangPasses)]>>
      [] k = 3 -> IF DivPasses = {} THEN <<>>
                  ELSE <<element.divs[First(DivPasses)].text>>

\* C29 (as stated): the first strategy that yields a result wins, and a
\* later strategy is consulted whenever the earlier ones yield no usable
\* text: the text extracted is that of the first strategy whose element
\* has a usable text, and extractTweetData returns null only when no
\* strategy finds an element with a usable text.
C29_LaterTierOnUnusable ==
    extracted.done =>
        LET yields == { k \in 1..3 : TierPick(k) # <<>> /\ Usable(TierPick(k)[1]) }
        IN  extracted.tweet = IF yields = {} THEN <<>> ELSE TierPick(First(yields))

\* C29 (amended): the first strategy that finds an element wins, whatever
\* its text, and a later strategy is consulted exactly when the earlier ones
\* find no element; extractTweetData returns null exactly when no strategy
\* finds an element or the text of the element found is shorter than 2 or a
\* UI token, so a text it returns has length >= 2 and is no UI token.
C29_TierFallback ==
    extracted.done =>
        LET finds == { k \in 1..3 : TierPick(k) # <<>> }
        IN  /\ extracted.tweet =
                  IF finds = {} THEN <<>>
                  ELSE IF Usable(TierPick(First(finds))[1])
                       THEN TierPick(First(finds))
                       ELSE <<>>
            /\ extracted.tweet # <<>> => Usable(extracted.tweet[1])

\* The text was resolved by the third strategy: there is no tweetText
\* element, no [lang] element passes though there are some, the first div
\* does not pass and the second does.
C29_Witness ==
    /\ extracted.done
    /\ element.tweetText = <<>>
    /\ element.lang # <<>>
    /\ LangPasses = {}
    /\ DivPasses = {2}
    /\ extracted.tweet = <<element.divs[2].text>>

\* C30: within a run allTweets only grows at its end: a step that begins no
\* run leaves every item at its index with every field as it was (text,
\* timestamp, author, isThread, threadTweets, threadPosition), removes none,
\* and what it adds comes after them.
C30_AppendOnly ==
    [][runs' = runs =>
         /\ Len(allTweets') >= Len(allTweets)
         /\ SubSeq(allTweets', 1, Len(allTweets)) = allTweets]_vars

\* A cycle has just appended an item of the rendered nodes behind an item
\* of an earlier cycle, a member of a thread, whose node is rendered no more.
C30_Witness ==
    /\ cycle = "view"
    /\ Len(allTweets) >= 2
    /\ allTweets[1].isThread
    /\ \A k \in 1..Len(dom) : dom[k].text # allTweets[1].text
    /\ \E k \in 1..Len(dom) : dom[k].text = allTweets[Len(allTweets)].text

\* The step is the resumption of the suspended activation at index i.
StepOf(i) ==
    LET st == [Now EXCEPT !.tasks = RemoveAt(@, i)] IN
    CASE tasks[i].pc = "timer" ->
             Becomes(ScrapeAndScroll(st, tasks[i].run, "timer"))
      [] tasks[i].pc = "expand" ->
             Becomes(FinishCycle(st, tasks[i].nodes, tasks[i].run))
      [] tasks[i].pc = "seek" ->
             Becomes(SeekLoop(st, tasks[i].attempts + 1, tasks[i].range,
                              tasks[i].run))

\* The suspended activations of runs before the current one, and those of
\* them that are a wait of the seek loop or the timer of a next cycle.
Stale == { i \in 1..Len(tasks) : tasks[i].run # runs }
StaleWaits == { i \in Stale : tasks[i].pc \in {"seek", "timer"} }

\* C31: the resumption of a seek wait or of a cycle timer left over from an
\* earlier run does nothing to the current run: it begins and ends no cycle, leaves allTweets
\* as it is, does not stop the run and sends no SCRAPING_COMPLETE; and a run
\* goes from active to inactive only in the step of a STOP_SCRAPING message
\* or in the resumption of an activation of its own.
C31_StaleStepsInert ==
    [][/\ \A i \in StaleWaits :
              StepOf(i) => /\ entry' = "none"
                           /\ cycle' = "none"
                           /\ allTweets' = allTweets
                           /\ isActive' = isActive
                           /\ completes' = completes
       /\ (isActive /\ ~isActive') =>
              \/ stops' = stops + 1
              \/ \E i \in 1..Len(tasks) : i \notin Stale /\ StepOf(i)]_vars

\* Nothing is pending and the engine is not active.
Quiescent == tasks = <<>> /\ ~isActive

\* C32: the timers firing, once a STOP_SCRAPING message has been received
\* and the engine is not active, it becomes quiescent unless a further
\* START_SCRAPING arrives; and a step from a quiescent state that is not the
\* step of a message leaves it quiescent: no sample of the seek loop (its
\* scroll), no cycle (its scroll), no change of allTweets, no message sent.
C32_Quiescence ==
    /\ \A n \in 0..MaxMessages :
          (stops > 0 /\ ~isActive /\ started = n) ~> (Quiescent \/ started # n)
    /\ [][(Quiescent /\ started' = started /\ stops' = stops) =>
            /\ Quiescent'
            /\ allTweets' = allTweets
            /\ entry' = "none" /\ cycle' = "none" /\ sampled' = NoRange
            /\ out' = <<>>]_vars

\* The engine is quiescent after a STOP_SCRAPING message that found a cycle
\* in flight: the cycle went on to set its timer (the handle is still in
\* scrollInterval) and the timer has fired.
C32_Witness ==
    /\ Quiescent
    /\ byStop
    /\ stops > 0
    /\ scrollInterval # NoHandle

\* A reader of comma-separated text with quoted fields: in a quoted field
\* two quotes are one quote of the value, and one quote ends the field and
\* is followed by a comma, a newline or the end.  mode is "start" (at the
\* start of a field), "plain" (in a field with no quotes around it), "quoted"
\* or "closing" (after a quote inside a quoted field); ok turns FALSE when
\* something other than a comma or a newline follows the end of a quoted
\* field.
ReadStep(r, c) ==
    CASE r.mode = "quoted" ->
             IF c = Quote THEN [r EXCEPT !.mode = "closing"]
             ELSE [r EXCEPT !.field = Append(@, c)]
      [] r.mode = "closing" /\ c = Quote ->
             [r EXCEPT !.mode = "quoted", !.field = Append(@, c)]
      [] r.mode = "start" /\ c = Quote ->
             [r EXCEPT !.mode = "quoted"]
      [] r.mode # "quoted" /\ c = Comma ->
             [r EXCEPT !.mode = "start", !.field = <<>>,
                       !.row = Append(@, r.field)]
      [] r.mode # "quoted" /\ c = Newline ->
             [r EXCEPT !.mode = "start", !.field = <<>>, !.row = <<>>,
                       !.rows = Append(@, Append(r.row, r.field))]
      [] r.mode = "closing" /\ c \notin {Quote, Comma, Newline} ->
             [r EXCEPT !.ok = FALSE]
      [] OTHER ->
             [r EXCEPT !.mode = "plain", !.field = Append(@, c)]

\* The reader over the pieces lo..hi of str, from r.
RECURSIVE ReadRange(_, _, _, _)
ReadRange(r, str, lo, hi) ==
    IF lo > hi THEN r
    ELSE IF lo = hi THEN ReadStep(r, str[lo])
    ELSE LET mid == (lo + hi) \div 2
             left == ReadRange(r, str, lo, mid)
         IN  IF left.ok THEN ReadRange(left, str, mid + 1, hi) ELSE left

\* The rows read, each a sequence of field values; ok is FALSE also when the
\* text ends inside a quoted field.
ReadCsv(str) ==
    LET r == ReadRange([ok |-> TRUE, mode |-> "start", field |-> <<>>,
                        row |-> <<>>, rows |-> <<>>], str, 1, Len(str))
    IN  [ok |-> r.ok /\ r.mode # "quoted",
         rows |-> Append(r.rows, Append(r.row, r.field))]

\* C33: the text convertToCSV makes reads back as the header row and then
\* one row of 8 fields for each tweet, in the order of the tweets, and the
\* text, the author and the full thread text of a row read back as the
\* tweet's values: no quote in a value ends the quoting of its field.
C33_CsvRows ==
    csv.done =>
        LET read == ReadCsv(csv.text) IN
        /\ read.ok
        /\ Len(read.rows) = 1 + Len(scrapedTweets)
        /\ read.rows[1] = Headers
        /\ \A i \in 1..Len(scrapedTweets) :
              LET row == read.rows[i + 1]
                  tweet == scrapedTweets[i]
              IN  /\ Len(row) = 8
                  /\ row[1] = tweet.text
                  /\ row[2] = IF tweet.author # <<>> THEN tweet.author
                              ELSE <<"Unknown">>
                  /\ row[6] = IF tweet.isThread
                              THEN Join(tweet.threadTweets, <<" | ">>)
                              ELSE <<>>
====
